---- MODULE Spec2Model ----
(***************************************************************************)
(* Tempo audition subsystem of ybcbpm: the TempoControls component         *)
(* (playback clock, look-ahead click scheduler) and the App's beat grid.   *)
(*                                                                         *)
(* Time is counted in units of 1/3200 s, the coarsest unit in which the    *)
(* program's constants (10 ms, 25 ms, 100 ms) and the bin centres of the   *)
(* 32-bin phase histogram of the modelled tempos are all whole numbers:    *)
(*   0.01 s = 32, 0.025 s = 80, 0.1 s = 320, 60 s = 192000.                *)
(* A tempo is a number of beats per minute, as in the source.              *)
(***************************************************************************)
EXTENDS Integers, Sequences, FiniteSets, TLC

\* ---------------------------------------------------------------- constants
ScheduleAheadTime == 320
SchedulerPeriod == 80
SeekEpsilon == 32
WrapEpsilon == 32
SixtySeconds == 192000
numBins == 32
MaxPhasePeaks == 150
MaxEvaluationPeaks == 64

\* ------------------------------------------------------------------- bounds
BufferDuration == 240
MaxTime == 240
MaxSessions == 2
MaxOps == 2

\* the analysis result the component is mounted with
Candidates == << [tempo |-> 1500, count |-> 5] >>
Peaks == << 0, 128, 256 >>
\* instants between which the audio clock is observed
Steps == {80}
\* positions the user can click in the waveform, and first-beat overrides
SeekTargets == {16, 100, 220}
OverrideTimes == {40, 100}

NoBeat == -1

\* ------------------------------------------------------------ pure helpers
Abs(x) == IF x < 0 THEN -x ELSE x

\* Math.ceil(a / b) for b > 0
Ceil(a, b) == -((-a) \div b)

\* the JavaScript remainder a % b for b > 0: the sign follows the dividend
JsMod(a, b) == IF a >= 0 THEN a % b ELSE -((-a) % b)

\* 60.0 / bpm
BeatInterval(bpm) == SixtySeconds \div bpm

\* ------------------------------------------------------- the tempo scorer
\* findBestBpm of App.  A candidate of tempo t has secondsPerBeat = 60 / t,
\* so error and tolerance are both whole numbers once multiplied by t:
\* tolerance * t = 0.15 * 60 s, error * t = |expectedBeats * 60 s - peak * t|.
\* Scores are counted in units of 1 / toleranceT, in which the credit
\* 1 - error / tolerance of a peak is toleranceT - errorT.
toleranceT == (15 * SixtySeconds) \div 100

\* Math.round(peakTime / secondsPerBeat)
expectedBeats(peakTime, tempo) ==
    (2 * peakTime * tempo + SixtySeconds) \div (2 * SixtySeconds)

\* Math.abs(expectedTime - peakTime), times the tempo
errorT(peakTime, tempo) ==
    Abs(expectedBeats(peakTime, tempo) * SixtySeconds - peakTime * tempo)

\* the for loop over evaluationPeaks from index i on (the source starts it
\* at the second peak).  With tempo 0 secondsPerBeat is Infinity and error
\* is NaN, which is below no tolerance.
RECURSIVE alignmentLoop(_, _, _)
alignmentLoop(evaluationPeaks, tempo, i) ==
    IF i > Len(evaluationPeaks) THEN 0
    ELSE (IF tempo # 0 /\ errorT(evaluationPeaks[i], tempo) < toleranceT
          THEN toleranceT - errorT(evaluationPeaks[i], tempo)
          ELSE 0)
         + alignmentLoop(evaluationPeaks, tempo, i + 1)

\* combinedScore as it would be if the alignment loop started at the first
\* peak
combinedScoreFromFirstPeak(candidates, index, evaluationPeaks) ==
    LET confidenceBoost == Len(candidates) - (index - 1)
    IN  alignmentLoop(evaluationPeaks, candidates[index].tempo, 1)
        + toleranceT * candidates[index].count
        + (toleranceT \div 10) * confidenceBoost

\* combinedScore of the candidate at index (counted from 1)
combinedScore(candidates, index, evaluationPeaks) ==
    LET confidenceBoost == Len(candidates) - (index - 1)
    IN  alignmentLoop(evaluationPeaks, candidates[index].tempo, 2)
        + toleranceT * candidates[index].count
        + (toleranceT \div 10) * confidenceBoost

\* candidates.forEach from index on; best holds bestTempo and bestScore
\* (minusInfinity: bestScore is still -Infinity)
RECURSIVE forEachCandidate(_, _, _, _)
forEachCandidate(candidates, evaluationPeaks, index, best) ==
    IF index > Len(candidates) THEN best
    ELSE LET score == combinedScore(candidates, index, evaluationPeaks)
         IN  forEachCandidate(candidates, evaluationPeaks, index + 1,
                 IF best.minusInfinity \/ score > best.bestScore
                 THEN [bestTempo |-> candidates[index].tempo, bestScore |-> score,
                       minusInfinity |-> FALSE]
                 ELSE best)

\* peakTimes.slice(0, 64)
evaluationPeaks(peakTimes) ==
    SubSeq(peakTimes, 1,
           IF Len(peakTimes) < MaxEvaluationPeaks THEN Len(peakTimes)
           ELSE MaxEvaluationPeaks)

\* findBestBpm as it would be without the early return for an empty peak
\* list
findBestBpmNoPeakFallback(candidates, peakTimes) ==
    IF Len(candidates) = 0 THEN 0
    ELSE forEachCandidate(candidates, evaluationPeaks(peakTimes), 1,
                          [bestTempo |-> candidates[1].tempo, bestScore |-> 0,
                           minusInfinity |-> TRUE]).bestTempo

findBestBpm(candidates, peakTimes) ==
    IF Len(candidates) = 0 THEN 0
    ELSE IF Len(peakTimes) = 0 THEN candidates[1].tempo
    ELSE forEachCandidate(candidates, evaluationPeaks(peakTimes), 1,
                          [bestTempo |-> candidates[1].tempo, bestScore |-> 0,
                           minusInfinity |-> TRUE]).bestTempo

\* App state: the candidates and peaks the analyser has returned
VARIABLE analysisResult

\* the analysis results the component is mounted with: the peaks of a steady
\* beat, no peak at all, and a first candidate of tempo 0
AnalysisResults ==
    { [candidates |-> Candidates, peaks |-> Peaks],
      [candidates |-> Candidates, peaks |-> << >>],
      [candidates |-> << [tempo |-> 0, count |-> 0] >>, peaks |-> Peaks] }

detectedBpm == analysisResult.candidates[1].tempo

\* the three tempo-multiplier buttons
variations == {detectedBpm \div 2, detectedBpm, detectedBpm * 2}

\* peaks.slice(0, Math.min(peaks.length, 150))
relevantPeaks(peaks) ==
    SubSeq(peaks, 1, IF Len(peaks) < MaxPhasePeaks THEN Len(peaks) ELSE MaxPhasePeaks)

\* bins: for each bin, the number of relevant peaks whose phase fraction
\* falls in it
histogram(peaks, beatInterval) ==
    [b \in 0..(numBins - 1) |->
        Cardinality({i \in 1..Len(relevantPeaks(peaks)) :
            ((peaks[i] % beatInterval) * numBins) \div beatInterval = b})]

\* twice the smoothed count of every bin (the source adds half of each
\* circular neighbour)
smoothed2(bins) ==
    [i \in 0..(numBins - 1) |->
        2 * bins[i] + bins[(i + 1) % numBins] + bins[(i - 1 + numBins) % numBins]]

\* the bin the loop would keep if it compared with >=: the last bin whose
\* smoothed count is maximal
bestBinIndexLast(peaks, beatInterval) ==
    LET count == smoothed2(histogram(peaks, beatInterval))
    IN  CHOOSE i \in 0..(numBins - 1) :
            /\ \A j \in 0..(numBins - 1) : count[j] <= count[i]
            /\ \A j \in (i + 1)..(numBins - 1) : count[j] < count[i]

\* the first bin whose smoothed count is maximal (the strict > of the loop
\* keeps the first)
bestBinIndex(peaks, beatInterval) ==
    LET count == smoothed2(histogram(peaks, beatInterval))
    IN  CHOOSE i \in 0..(numBins - 1) :
            /\ \A j \in 0..(numBins - 1) : count[j] <= count[i]
            /\ \A j \in 0..(i - 1) : count[j] < count[i]

\* the number x % 0 is in JavaScript
NaN == -2

\* (peaks?.[0] || 0) % beatInterval of the degenerate cases: the remainder
\* has the magnitude of the divisor's absolute value
findBestPhase(peaks, beatInterval) ==
    IF Len(peaks) < 2 \/ beatInterval <= 0
    THEN IF beatInterval = 0 THEN NaN
         ELSE JsMod(IF Len(peaks) = 0 THEN 0 ELSE peaks[1], Abs(beatInterval))
    ELSE ((2 * bestBinIndex(peaks, beatInterval) + 1) * beatInterval) \div (2 * numBins)

\* the peaks that lie within a quarter interval of the grid, as the loop tests
nearGrid(peaks, phase, beatInterval) ==
    {i \in 1..Len(peaks) :
        LET remainder == JsMod(peaks[i] - phase, beatInterval)
        IN  4 * remainder < beatInterval \/ 4 * (beatInterval - remainder) < beatInterval}

autoFirstBeat(peaks, phase, beatInterval) ==
    LET hits  == nearGrid(peaks, phase, beatInterval)
        found == IF hits = {} THEN 0
                 ELSE peaks[CHOOSE i \in hits : \A j \in hits : i <= j]
    IN  IF found = 0 THEN peaks[1] ELSE found

\* the beatInfo memo of App
beatInfo(bpm, peaks, userOverriddenBeat) ==
    IF bpm = 0 \/ Len(peaks) = 0
    THEN [phase |-> 0, interval |-> 0, firstBeat |-> 0, isUserDefined |-> FALSE]
    ELSE LET beatInterval == BeatInterval(bpm)
         IN  IF userOverriddenBeat # NoBeat
             THEN [phase |-> userOverriddenBeat % beatInterval, interval |-> beatInterval,
                   firstBeat |-> userOverriddenBeat, isUserDefined |-> TRUE]
             ELSE LET phase == findBestPhase(peaks, beatInterval)
                  IN  [phase |-> phase, interval |-> beatInterval,
                       firstBeat |-> autoFirstBeat(peaks, phase, beatInterval),
                       isUserDefined |-> FALSE]

\* ------------------------------------------------------------------- state
VARIABLES
    now,                \* AudioContext.currentTime
    ctx,                \* AudioContext.state: "suspended", "running", "closed"
    closes,             \* number of AudioContext.close() calls
    mounted,            \* TempoControls is mounted
    activeBpm,          \* App state
    userOverriddenBeat, \* App state (NoBeat for null)
    r,                  \* props and state captured by the last committed render
    effectPending,      \* the seek effect of that render has not run yet
    ops,                \* number of user actions so far
    c,                  \* the component's refs, the audio resources they own,
                        \* isPlaying and the App's currentTime
    fired,              \* the clicks that sounded during the last clock advance
    g,                  \* the first click computed for a start of playback
    out                 \* the last call of findBestPhase and what it returned

vars == << analysisResult, now, ctx, closes, mounted, activeBpm,
           userOverriddenBeat, r, effectPending, ops, c, fired, g, out >>

\* ------------------------------------------------------------ the component
NoSession == [id |-> 0, offset |-> 0, h |-> 0, phase |-> 0, interval |-> 0,
              bpm |-> 0, kind |-> "none", played |-> 0]
NoReport == [pos |-> 0, at |-> 0, sid |-> 0]
NoSeek == -1

NoGrid == [grid |-> [phase |-> 0, interval |-> 0, firstBeat |-> 0,
                     isUserDefined |-> FALSE],
           bpm |-> -1]

\* what the renders remember besides the memo: auto is the last grid rendered
\* without an override and its tempo, restoredFrom is, in the render of a
\* reset, the auto of the render before (NoGrid in every other render)
history(bpm, override, prev, grid) ==
    [auto |-> IF override = NoBeat THEN [grid |-> grid, bpm |-> bpm]
              ELSE prev.history.auto,
     restoredFrom |-> IF prev.userOverriddenBeat # NoBeat /\ override = NoBeat
                      THEN prev.history.auto ELSE NoGrid]

\* the render as it would be if the memo were not recomputed when the
\* override is reset
renderingKeepsGridOnReset(cc, bpm, override, prev) ==
    LET grid == IF /\ bpm = prev.activeBpm
                   /\ (override = prev.userOverriddenBeat \/ override = NoBeat)
                THEN prev.beatInfo
                ELSE beatInfo(bpm, analysisResult.peaks, override)
    IN  [currentTime |-> cc.currentTime, isPlaying |-> cc.isPlaying,
         activeBpm |-> bpm, userOverriddenBeat |-> override, writer |-> cc.writer,
         beatInfo |-> grid, history |-> history(bpm, override, prev, grid)]

\* what a render yields after render prev: the beatInfo memo is recomputed
\* when one of its dependencies (activeBpm, the override) has changed.
\* writer tells who set the currentTime it captures.
rendering(cc, bpm, override, prev) ==
    LET grid == IF bpm = prev.activeBpm /\ override = prev.userOverriddenBeat
                THEN prev.beatInfo
                ELSE beatInfo(bpm, analysisResult.peaks, override)
    IN  [currentTime |-> cc.currentTime, isPlaying |-> cc.isPlaying,
         activeBpm |-> bpm, userOverriddenBeat |-> override, writer |-> cc.writer,
         beatInfo |-> grid, history |-> history(bpm, override, prev, grid)]

\* --------------------------------------------------------------- handlers
\* stopPlayback as it would be if it also moved the recorded offset to the
\* position of the stop, as the pause branch of handlePlayPause does before
\* it calls stopPlayback
stopPlaybackAccumulating(cc, updateState) ==
    [cc EXCEPT !.frames = {f \in @ : f.id # cc.animationFrameRef},
               !.animationFrameRef = 0,
               !.timers = {t \in @ : t.id # cc.schedulerIntervalRef},
               !.schedulerIntervalRef = 0,
               !.sources = {s \in @ : s.id # cc.audioSourceRef},
               !.stopped = IF \E q \in cc.sources : q.id = cc.audioSourceRef
                           THEN Append(@, [id |-> cc.audioSourceRef, onended |-> FALSE])
                           ELSE @,
               !.audioSourceRef = 0,
               !.startOffsetRef = @ + (now - cc.playbackStartTimeRef),
               !.isPlaying = IF updateState THEN FALSE ELSE @]

\* onended = null and stop(0) leave the stopped source without handler for
\* the 'ended' event that its stop makes the browser dispatch
stopPlayback(cc, updateState) ==
    [cc EXCEPT !.frames = {f \in @ : f.id # cc.animationFrameRef},
               !.animationFrameRef = 0,
               !.timers = {t \in @ : t.id # cc.schedulerIntervalRef},
               !.schedulerIntervalRef = 0,
               !.sources = {s \in @ : s.id # cc.audioSourceRef},
               !.stopped = IF \E q \in cc.sources : q.id = cc.audioSourceRef
                           THEN Append(@, [id |-> cc.audioSourceRef, onended |-> FALSE])
                           ELSE @,
               !.audioSourceRef = 0,
               !.isPlaying = IF updateState THEN FALSE ELSE @]

\* osc.start(time): a click whose time has passed sounds at once, any other
\* stays scheduled on the audio clock.  batch keeps, for the clicks of the
\* running scheduler call, the instant of the call and the session and grids
\* they were computed from.
scheduleClick(cc, time, tm) ==
    [cc EXCEPT !.batch = @ \cup {[time |-> time, at |-> now, due |-> tm.due,
                                  k |-> cc.nclicks, sess |-> cc.sess,
                                  ival |-> BeatInterval(tm.bpm),
                                  cadence |-> (tm.onCadence /\ now = tm.due),
                                  cur |-> r.beatInfo,
                                  settled |-> ~effectPending]},
               !.clicks = IF time > now
                          THEN @ \cup {[time |-> time, sid |-> tm.id,
                                        song |-> cc.sess.offset + (time - cc.sess.h)]}
                          ELSE @,
               !.nclicks = @ + 1]

\* the loop as it would be if a callback that finds the next click time
\* already past recomputed it from the clock
RECURSIVE schedulerLoopFromNow(_, _)
schedulerLoopFromNow(cc, tm) ==
    IF cc.nextNoteTimeRef < now + ScheduleAheadTime
    THEN schedulerLoopFromNow([scheduleClick(cc, cc.nextNoteTimeRef, tm)
               EXCEPT !.nextNoteTimeRef =
                   IF @ < now THEN now + BeatInterval(tm.bpm)
                   ELSE @ + BeatInterval(tm.bpm)], tm)
    ELSE cc

RECURSIVE schedulerLoop(_, _)
schedulerLoop(cc, tm) ==
    IF cc.nextNoteTimeRef < now + ScheduleAheadTime
    THEN schedulerLoop([scheduleClick(cc, cc.nextNoteTimeRef, tm)
                           EXCEPT !.nextNoteTimeRef = @ + BeatInterval(tm.bpm)], tm)
    ELSE cc

\* tm.bpm is the activeBpm of the render whose scheduler setInterval captured
scheduler(cc, tm) ==
    IF tm.bpm <= 0 THEN [cc EXCEPT !.batch = {}]
    ELSE schedulerLoop([cc EXCEPT !.batch = {}], tm)

\* the first click of a start at offset on the grid {phase, interval}
beatsSincePhase(offset, phase, interval) == Ceil(offset - phase, interval)

\* the first click as it would be if the beat after the one at or before the
\* offset were taken
firstClickSongTimeNextBeat(offset, phase, interval) ==
    phase + (((offset - phase) \div interval) + 1) * interval

firstClickSongTime(offset, phase, interval) ==
    phase + beatsSincePhase(offset, phase, interval) * interval

firstClickDelay(offset, phase, interval) ==
    firstClickSongTime(offset, phase, interval) - offset

\* startPlayback after stopPlayback(false): the new source, the first click
\* time, the look-ahead timer and the position loop.  setIsPlaying has no
\* effect once the component is unmounted.
startSource(cc, call) ==
    LET sid == cc.sessions + 1
        metronome == call.bpm > 0 /\ call.interval > 0
    IN  [cc EXCEPT
           !.sessions = sid,
           !.sources = @ \cup {[id |-> sid, startedAt |-> now, offset |-> call.offset]},
           !.audioSourceRef = sid,
           !.startOffsetRef = call.offset,
           !.internalTimeRef = call.offset,
           !.playbackStartTimeRef = now,
           !.nextNoteTimeRef =
               IF metronome
               THEN now + firstClickDelay(call.offset, call.phase, call.interval)
               ELSE @,
           !.timers = IF metronome
                      THEN @ \cup {[id |-> sid, due |-> now + SchedulerPeriod,
                                    bpm |-> call.bpm, onCadence |-> TRUE]}
                      ELSE @,
           !.schedulerIntervalRef = IF metronome THEN sid ELSE @,
           !.isPlaying = IF mounted THEN TRUE ELSE @,
           !.frames = @ \cup {[id |-> sid, at |-> now]},
           !.animationFrameRef = sid,
           !.sess = [id |-> sid, offset |-> call.offset, h |-> now,
                     phase |-> call.phase, interval |-> call.interval,
                     bpm |-> call.bpm, kind |-> call.kind,
                     played |-> cc.played],
           !.recorded = NoSeek,
           !.nclicks = 0]

\* startPlayback as it would be without its stopPlayback(false)
startBodyNoStop(cc, call) == startSource(cc, call)

\* startPlayback from "stopPlayback(false)" on
startBody(cc, call) == startSource(stopPlayback(cc, FALSE), call)

\* startPlayback of render rr: a suspended context makes the call wait for
\* resume(); the call keeps the activeBpm and beatInfo of its render.  kind
\* tells what asked for the start: "play", or the writer of the currentTime
\* the seek effect restarts at.
startPlayback(cc, offset, kind, rr) ==
    LET call == [offset |-> offset, bpm |-> rr.activeBpm,
                 phase |-> rr.beatInfo.phase, interval |-> rr.beatInfo.interval,
                 kind |-> kind]
    IN  IF ctx = "suspended"
        THEN [cc EXCEPT !.awaiting = Append(@, call)]
        ELSE startBody(cc, call)

\* the continuations of the calls waiting for resume(), in call order
RECURSIVE resumeAll(_)
resumeAll(cc) ==
    IF cc.awaiting = << >> THEN cc
    ELSE resumeAll(startBody([cc EXCEPT !.awaiting = Tail(@)], Head(cc.awaiting)))

\* the requestAnimationFrame callback of frame f
tick(cc, f) ==
    LET elapsedTime == now - cc.playbackStartTimeRef
        newTime == cc.startOffsetRef + elapsedTime
        c1 == [cc EXCEPT !.frames = @ \ {f},
                         !.internalTimeRef = newTime,
                         !.currentTime = newTime,
                         !.writer = "tick",
                         !.report = [pos |-> newTime, at |-> now,
                                     sid |-> cc.audioSourceRef]]
    IN  IF newTime >= BufferDuration
        THEN [stopPlayback(c1, TRUE) EXCEPT !.currentTime = BufferDuration,
                                            !.startOffsetRef = BufferDuration]
        ELSE [c1 EXCEPT !.frames = @ \cup {[id |-> f.id, at |-> now]},
                        !.animationFrameRef = f.id]

isExternalChange(cc, rr) == Abs(rr.currentTime - cc.internalTimeRef) > SeekEpsilon

\* the effect on [currentTime, isPlaying, startPlayback, stopPlayback] of
\* render rr
seekEffect(cc, rr) ==
    IF isExternalChange(cc, rr)
    THEN LET c1 == [cc EXCEPT !.startOffsetRef = rr.currentTime,
                              !.internalTimeRef = rr.currentTime,
                              !.recorded = rr.currentTime]
         IN  IF rr.isPlaying
             THEN startPlayback(stopPlayback(c1, FALSE), rr.currentTime, rr.writer, rr)
             ELSE c1
    ELSE cc

\* handlePlayPause of render rr
handlePlayPause(cc, rr) ==
    IF rr.isPlaying
    THEN LET elapsedTime == now - cc.playbackStartTimeRef
         IN  stopPlayback([cc EXCEPT !.startOffsetRef = @ + elapsedTime], TRUE)
    ELSE LET offset == IF cc.startOffsetRef >= BufferDuration - WrapEpsilon
                       THEN 0 ELSE cc.startOffsetRef
         IN  startPlayback([cc EXCEPT !.currentTime = offset, !.writer = "play"],
                           offset, "play", rr)

\* source.onended of source s
onended(cc, s) ==
    IF cc.audioSourceRef = s.id THEN stopPlayback(cc, TRUE) ELSE cc

\* the 'ended' event as it would be if stopPlayback left the handler on the
\* source it stops and the handler did not compare its source with
\* audioSourceRef
endedStopsAnySource(cc, s) == stopPlayback(cc, TRUE)

\* the 'ended' event of source s: the browser calls the handler the source
\* holds, if it still holds one
ended(cc, s) == IF s.onended THEN onended(cc, s) ELSE cc

\* ------------------------------------------------------------------ actions
NoClick == [started |-> FALSE, offset |-> 0, h |-> 0, songTime |-> 0,
            time |-> 0, grid |-> NoGrid.grid]

\* no call of findBestPhase made yet
NoCall == [called |-> FALSE, peaks |-> << >>, interval |-> 0, phase |-> 0]

\* the refs and state of a component that has just mounted.  stopped holds
\* the sources stopPlayback has stopped whose 'ended' event is still to be
\* dispatched, in the order of their stops; recorded is the offset the seek
\* effect has recorded since the last start of a source.
InitialRefs ==
    [isPlaying |-> FALSE, currentTime |-> 0, writer |-> "none",
     audioSourceRef |-> 0, animationFrameRef |-> 0, schedulerIntervalRef |-> 0,
     playbackStartTimeRef |-> 0, startOffsetRef |-> 0, internalTimeRef |-> 0,
     nextNoteTimeRef |-> 0,
     sources |-> {}, timers |-> {}, frames |-> {}, clicks |-> {},
     awaiting |-> << >>, sessions |-> 0,
     batch |-> {}, sess |-> NoSession, nclicks |-> 0, report |-> NoReport,
     played |-> 0, sought |-> FALSE,
     stopped |-> << >>, recorded |-> NoSeek]

\* the component as mounted for the analysis result
InitComponent ==
    /\ now = 0
    /\ ctx \in {"suspended", "running"}
    /\ closes = 0
    /\ mounted = TRUE
    /\ activeBpm = detectedBpm
    /\ userOverriddenBeat = NoBeat
    /\ r = [currentTime |-> 0, isPlaying |-> FALSE, activeBpm |-> detectedBpm,
            userOverriddenBeat |-> NoBeat, writer |-> "none",
            beatInfo |-> beatInfo(detectedBpm, analysisResult.peaks, NoBeat),
            history |-> [auto |-> [grid |-> beatInfo(detectedBpm, analysisResult.peaks,
                                                     NoBeat),
                                   bpm |-> detectedBpm],
                         restoredFrom |-> NoGrid]]
    /\ effectPending = FALSE
    /\ ops = 0
    /\ fired = {}
    /\ c = InitialRefs

Init ==
    /\ analysisResult \in AnalysisResults
    /\ g = NoClick
    /\ out = NoCall
    /\ InitComponent

\* the dependencies of the seek effect differ between two renders
changed(rr, prev) ==
    \/ rr.currentTime # prev.currentTime
    \/ rr.isPlaying # prev.isPlaying
    \/ rr.activeBpm # prev.activeBpm
    \/ rr.beatInfo # prev.beatInfo

\* A click is a discrete event: React renders the updates of its handler
\* before the event returns and runs the effects of that render with it.
\* c1 is the component after the handler, bpm and override the App state.
Commit(c1, bpm, override) ==
    LET rr == rendering(c1, bpm, override, r)
    IN  /\ r' = rr
        /\ c' = IF changed(rr, r) THEN seekEffect(c1, rr) ELSE c1
        /\ activeBpm' = bpm
        /\ userOverriddenBeat' = override
        /\ ops' = ops + 1
        /\ UNCHANGED << analysisResult, g, out, now, ctx, closes, mounted, effectPending, fired >>

UserCan == mounted /\ ~effectPending /\ ops < MaxOps
CanStart == c.sessions + Len(c.awaiting) < MaxSessions

\* the Preview / Stop button
PlayPause ==
    /\ UserCan /\ CanStart
    /\ Commit(handlePlayPause(c, r), activeBpm, userOverriddenBeat)

\* a click in the waveform: onSeek = setCurrentTime
SeekTo(x) ==
    /\ UserCan /\ CanStart
    /\ x # c.currentTime
    /\ Commit([c EXCEPT !.currentTime = x, !.writer = "seek", !.sought = TRUE],
              activeBpm, userOverriddenBeat)

Seek == \E x \in SeekTargets : SeekTo(x)

\* a tempo-multiplier button: onBpmChange = setActiveBpm
BpmChange ==
    /\ UserCan /\ CanStart
    /\ \E v \in variations : v # activeBpm /\ Commit(c, v, userOverriddenBeat)

\* the first-beat callbacks App hands to its children
handleBeatAdjust ==
    /\ UserCan /\ CanStart
    /\ \E t \in OverrideTimes : t # userOverriddenBeat /\ Commit(c, activeBpm, t)

handleResetBeat ==
    /\ UserCan /\ CanStart
    /\ userOverriddenBeat # NoBeat
    /\ Commit(c, activeBpm, NoBeat)

\* React commits the state updates made outside an event (by tick, onended
\* or a resumed startPlayback); the seek effect of the render is queued
Render ==
    /\ mounted /\ ~effectPending
    /\ changed(rendering(c, activeBpm, userOverriddenBeat, r), r)
    /\ r' = rendering(c, activeBpm, userOverriddenBeat, r)
    /\ effectPending' = TRUE
    /\ UNCHANGED << analysisResult, g, out, now, ctx, closes, mounted, activeBpm, userOverriddenBeat, ops,
                    c, fired >>

SeekEffect ==
    /\ mounted /\ effectPending
    /\ (isExternalChange(c, r) /\ r.isPlaying) => CanStart
    /\ c' = seekEffect(c, r)
    /\ effectPending' = FALSE
    /\ UNCHANGED << analysisResult, g, out, now, ctx, closes, mounted, activeBpm, userOverriddenBeat, r,
                    ops, fired >>

Tick ==
    /\ \E f \in c.frames : now > f.at /\ c' = tick(c, f)
    /\ UNCHANGED << analysisResult, g, out, now, ctx, closes, mounted, activeBpm, userOverriddenBeat, r,
                    effectPending, ops, fired >>

\* a callback of the look-ahead interval, on time or late
TimerFire ==
    /\ \E tm \in c.timers :
          /\ now >= tm.due
          /\ LET c1 == scheduler(c, tm)
                 nextDue == IF tm.due + SchedulerPeriod > now
                            THEN tm.due + SchedulerPeriod ELSE now + SchedulerPeriod
             IN  c' = [c1 EXCEPT !.timers =
                          (@ \ {tm}) \cup {[tm EXCEPT !.due = nextDue,
                                                      !.onCadence = @ /\ now = tm.due]}]
    /\ UNCHANGED << analysisResult, g, out, now, ctx, closes, mounted, activeBpm, userOverriddenBeat, r,
                    effectPending, ops, fired >>

\* the 'ended' event of a source that has played to the end of the buffer
SourceEnded ==
    /\ \E s \in c.sources :
          /\ now >= s.startedAt + (IF s.offset >= BufferDuration THEN 0
                                   ELSE BufferDuration - s.offset)
          /\ c' = [ended(c, [id |-> s.id, onended |-> TRUE])
                      EXCEPT !.stopped = SelectSeq(@, LAMBDA q : q.id # s.id)]
    /\ UNCHANGED << analysisResult, g, out, now, ctx, closes, mounted, activeBpm, userOverriddenBeat, r,
                    effectPending, ops, fired >>

\* the 'ended' event of a source that stopPlayback has stopped; the events
\* are dispatched in the order in which the sources were stopped
StaleEnded ==
    /\ c.stopped # << >>
    /\ c' = [ended(c, Head(c.stopped)) EXCEPT !.stopped = Tail(@)]
    /\ UNCHANGED << analysisResult, g, out, now, ctx, closes, mounted, activeBpm,
                    userOverriddenBeat, r, effectPending, ops, fired >>

\* the audio clock runs while the context is running; the clicks whose time
\* is reached sound, whether or not their session is still the live one.
\* played is the hardware time for which a source has been playing.
Advance ==
    /\ ctx = "running"
    /\ \E d \in Steps :
          /\ now + d <= MaxTime
          /\ now' = now + d
          /\ fired' = {[time |-> k.time, sid |-> k.sid, live |-> c.audioSourceRef]
                          : k \in {q \in c.clicks : q.time <= now + d}}
          /\ c' = [c EXCEPT !.clicks = {k \in @ : k.time > now + d},
                            !.played = IF c.sources # {} THEN @ + d ELSE @]
    /\ UNCHANGED << analysisResult, g, out, ctx, closes, mounted, activeBpm, userOverriddenBeat, r,
                    effectPending, ops >>

\* the promises of resume() are resolved; a resume that is under way when
\* close() is called still resolves
ResumeResolved ==
    /\ c.awaiting # << >>
    /\ ctx' = IF ctx = "suspended" THEN "running" ELSE ctx
    /\ c' = resumeAll(c)
    /\ UNCHANGED << analysisResult, g, out, now, closes, mounted, activeBpm, userOverriddenBeat, r,
                    effectPending, ops, fired >>

\* the promises of resume() are rejected by the closed context
ResumeRejected ==
    /\ c.awaiting # << >>
    /\ ctx = "closed"
    /\ c' = [c EXCEPT !.awaiting = << >>]
    /\ UNCHANGED << analysisResult, g, out, now, ctx, closes, mounted, activeBpm, userOverriddenBeat, r,
                    effectPending, ops, fired >>

\* the cleanup of the mount effect: analysis reset or component unmount
Unmount ==
    /\ mounted
    /\ mounted' = FALSE
    /\ c' = stopPlayback(c, TRUE)
    /\ ctx' = "closed"
    /\ closes' = closes + 1
    /\ effectPending' = FALSE
    /\ UNCHANGED << analysisResult, g, out, now, activeBpm, userOverriddenBeat, r, ops, fired >>

Next ==
    \/ PlayPause
    \/ Seek
    \/ BpmChange
    \/ handleBeatAdjust
    \/ handleResetBeat
    \/ Render
    \/ SeekEffect
    \/ Tick
    \/ TimerFire
    \/ SourceEnded
    \/ StaleEnded
    \/ Advance
    \/ ResumeResolved
    \/ ResumeRejected
    \/ Unmount

Spec == Init /\ [][Next]_vars

\* ------------------------------------------------- the grid and first click
\* The beat grid and the first click of a start are functions of the
\* analysis result, the tempo, the override and the offset alone; GridSpec
\* applies them to more analysis results and offsets than the playback
\* machine above is run with.  The bin centres of the phase histogram are
\* whole numbers of time units for every tempo below except 240 BPM (twice
\* 120), where they are rounded down by half a unit.
GridAnalysisResults ==
    { [candidates |-> Candidates, peaks |-> Peaks],
      [candidates |-> Candidates, peaks |-> << >>],
      [candidates |-> Candidates, peaks |-> << 20 >>],
      [candidates |-> Candidates, peaks |-> << 30, 128, 256, 384 >>],
      [candidates |-> << [tempo |-> 120, count |-> 5] >>,
       peaks |-> << 0, 1600, 3200, 4800, 6400 >>],
      [candidates |-> << [tempo |-> 0, count |-> 0] >>, peaks |-> Peaks] }

\* offsets playback is started at, and instants of the audio clock
GridOffsets == {0, 2, 16, 100, 130, 640, 1600}
GridStartTimes == {0, 80}

GridInit ==
    /\ analysisResult \in GridAnalysisResults
    /\ g = NoClick
    /\ out = NoCall
    /\ InitComponent
    /\ ctx = "running"

\* the metronome synchronisation of startPlayback for the rendered grid
GridStart ==
    /\ mounted
    /\ r.activeBpm > 0 /\ r.beatInfo.interval > 0
    /\ \E offset \in GridOffsets, h \in GridStartTimes :
          g' = [started |-> TRUE, offset |-> offset, h |-> h,
                songTime |-> firstClickSongTime(offset, r.beatInfo.phase,
                                                r.beatInfo.interval),
                time |-> h + firstClickDelay(offset, r.beatInfo.phase,
                                             r.beatInfo.interval),
                grid |-> r.beatInfo]
    /\ UNCHANGED << analysisResult, out, now, ctx, closes, mounted, activeBpm,
                    userOverriddenBeat, r, effectPending, ops, c, fired >>

GridNext ==
    \/ BpmChange
    \/ handleBeatAdjust
    \/ handleResetBeat
    \/ GridStart

GridSpec == GridInit /\ [][GridNext]_vars

\* ----------------------------------------------- the scorer and the phase
\* findBestBpm and findBestPhase are functions of their arguments alone.
\* FuncSpec draws an analysis result, selects the tempo as handleFileSelect
\* does, and calls findBestPhase for the peaks and an interval.
\* K 6400 is the k-th multiple of 2 s, a beat of 120 BPM and of 90 BPM alike.
WindowPeaks ==
    [i \in 1..66 |-> IF i = 1 THEN 2133
                     ELSE IF i <= MaxEvaluationPeaks THEN 6400 * (i - 1)
                     ELSE 2133 + 6400 * (i - 1)]

\* 75 peaks on the beat of 1500 BPM, then 76 peaks half a beat off it
LongPeaks ==
    [i \in 1..(MaxPhasePeaks + 1) |-> IF i <= 75 THEN 128 * (i - 1)
                                      ELSE 128 * (i - 1) + 64]

FuncCandidates ==
    { << >>,
      << [tempo |-> 120, count |-> 5] >>,
      << [tempo |-> 120, count |-> 10], [tempo |-> 90, count |-> 50] >>,
      << [tempo |-> 120, count |-> 10], [tempo |-> 90, count |-> 10] >>,
      << [tempo |-> 90, count |-> 10], [tempo |-> 120, count |-> 10] >>,
      << [tempo |-> 203, count |-> 5], [tempo |-> 200, count |-> 5] >>,
      << [tempo |-> 0, count |-> 7], [tempo |-> 120, count |-> 5] >> }

FuncPeaks ==
    { << >>, << 20 >>, << 0, 960 >>, << 40, 100, 228, 356 >>,
      << 0, 1600, 3200, 4800, 6400 >>, WindowPeaks, LongPeaks }

FuncIntervals == {-128, 0, 128, 1600}

\* activeBpm before the analysis: null
NoBpm == -1

FuncInit ==
    /\ analysisResult \in [candidates : FuncCandidates, peaks : FuncPeaks]
    /\ activeBpm = NoBpm
    /\ out = NoCall
    /\ g = NoClick
    /\ now = 0 /\ ctx = "suspended" /\ closes = 0 /\ mounted = FALSE
    /\ userOverriddenBeat = NoBeat
    /\ r = [currentTime |-> 0, isPlaying |-> FALSE, activeBpm |-> 0,
            userOverriddenBeat |-> NoBeat, writer |-> "none",
            beatInfo |-> NoGrid.grid,
            history |-> [auto |-> NoGrid, restoredFrom |-> NoGrid]]
    /\ effectPending = FALSE /\ ops = 0 /\ fired = {}
    /\ c = InitialRefs

\* handleFileSelect: bestBpm = findBestBpm(candidates, peaks);
\* setActiveBpm(bestBpm)
SelectTempo ==
    /\ activeBpm = NoBpm
    /\ activeBpm' = findBestBpm(analysisResult.candidates, analysisResult.peaks)
    /\ UNCHANGED << analysisResult, g, out, now, ctx, closes, mounted,
                    userOverriddenBeat, r, effectPending, ops, c, fired >>

\* a call findBestPhase(peaks, beatInterval)
EstimatePhase ==
    /\ \E interval \in FuncIntervals :
          /\ out' = [called |-> TRUE, peaks |-> analysisResult.peaks,
                     interval |-> interval,
                     phase |-> findBestPhase(analysisResult.peaks, interval)]
    /\ UNCHANGED << analysisResult, g, now, ctx, closes, mounted, activeBpm,
                    userOverriddenBeat, r, effectPending, ops, c, fired >>

FuncNext ==
    \/ SelectTempo
    \/ EstimatePhase

FuncSpec == FuncInit /\ [][FuncNext]_vars

\* ------------------------------------------------------------------ claims

\* C1: in every reachable state at most one audio source, one look-ahead
\* timer and one position loop are live, they are the ones the refs hold,
\* and they belong to the session started last: startPlayback has retired
\* everything older before its source starts.
C1_OneSession ==
    /\ Cardinality(c.sources) <= 1
    /\ Cardinality(c.timers) <= 1
    /\ Cardinality(c.frames) <= 1
    /\ \A s \in c.sources : s.id = c.audioSourceRef /\ s.id = c.sessions
    /\ \A t \in c.timers : t.id = c.schedulerIntervalRef /\ t.id = c.sessions
    /\ \A f \in c.frames : f.id = c.animationFrameRef /\ f.id = c.sessions

\* two Preview presses waited for resume() together and both have continued
C1_Witness ==
    /\ c.sessions = 2 /\ c.sess.kind = "play" /\ now = 0 /\ c.awaiting = << >>
    /\ Cardinality(c.sources) = 1
    /\ Cardinality(c.timers) = 1
    /\ Cardinality(c.frames) = 1

\* C2: a click newly put on the audio clock never has the hardware time or
\* the beat (song time) of another click that is scheduled and has not yet
\* sounded, and it is later than every click that was already pending.
C2_NoOverlap ==
    [][\A k \in c'.clicks \ c.clicks : \A p \in c'.clicks :
          p # k => /\ p.time # k.time
                   /\ p.song # k.song
                   /\ (p \in c.clicks => p.time < k.time)]_vars

\* C3: a click scheduled once a changed tempo or first beat has been rendered
\* and its effect has run lies on the grid of that render: it advances by the
\* interval of the grid and its song time is phase + n * interval.
C3_OnCurrentGrid ==
    \A k \in c.batch :
        (k.settled /\ k.cur.interval > 0) =>
            /\ k.ival = k.cur.interval
            /\ (k.sess.offset + (k.time - k.sess.h) - k.cur.phase) % k.cur.interval = 0

\* C4: a click that sounds was scheduled by the session that is live when it
\* sounds: none of a stopped session does.
C4_NoStaleClick == \A k \in fired : k.sid = k.live

\* C5: once the component is unmounted there is no live source, look-ahead
\* timer or position loop, and the context has been closed exactly once.
C5_TornDown ==
    ~mounted => /\ c.sources = {} /\ c.timers = {} /\ c.frames = {}
                /\ closes = 1

\* C6: the k-th click of a session that started at offset o and hardware
\* time h on the grid {phase, interval} has hardware time
\* h + (phase + (b0 + k) * interval - o), b0 = ceil((o - phase) / interval),
\* whenever the look-ahead callback that schedules it runs.
C6_GridTimes ==
    \A k \in c.batch :
        LET s  == k.sess
            b0 == Ceil(s.offset - s.phase, s.interval)
        IN  k.time = s.h + (s.phase + (b0 + k.k) * s.interval - s.offset)

\* a look-ahead callback that ran late has scheduled the third click or a
\* later one of its session
C6_Witness == \E k \in c.batch : k.k >= 2 /\ k.at > k.due

\* C7: when the look-ahead callbacks of the session have all run on their
\* 25 ms cadence, a click is scheduled no later than its time and less than
\* 0.1 s ahead of it.
C7_Ahead ==
    \A k \in c.batch :
        k.cadence => (k.at <= k.time /\ k.time < k.at + ScheduleAheadTime)

\* the step SeekTo(x) has restarted playback at x
Restarted(x) ==
    /\ c'.sessions = c.sessions + 1
    /\ c'.sources = {[id |-> c'.sessions, startedAt |-> now, offset |-> x]}
    /\ c'.audioSourceRef = c'.sessions
    /\ c'.startOffsetRef = x
    /\ c'.playbackStartTimeRef = now
    /\ c'.isPlaying

\* a position reported by a session that a seek started is the offset of
\* the seek plus the hardware time since the restart
SeekSessionPosition ==
    (c.report.sid # 0 /\ c.report.sid = c.sess.id /\ c.sess.kind = "seek") =>
        c.report.pos = c.sess.offset + (c.report.at - c.sess.h)

\* C8: every seek while playing restarts playback at the new offset in the
\* step of the seek (the old source retired, a new one started at the offset,
\* startOffsetRef and playbackStartTimeRef set with it, still playing), and
\* the positions reported afterwards are counted from it.
C8_EverySeekRestarts ==
    [][/\ \A x \in SeekTargets :
            (SeekTo(x) /\ c.isPlaying /\ c.audioSourceRef # 0) => Restarted(x)
       /\ SeekSessionPosition']_vars

\* C9: the seek effect of a render whose currentTime is a position written
\* by tick never restarts playback.
C9_NoSelfRestart ==
    [][(SeekEffect /\ r.writer = "tick")
          => (c'.sessions = c.sessions /\ c'.awaiting = c.awaiting)]_vars

\* stopped at the end of the buffer
AtEnd ==
    /\ ~c.isPlaying
    /\ c.currentTime = BufferDuration
    /\ c.startOffsetRef = BufferDuration
    /\ c.sources = {} /\ c.timers = {} /\ c.frames = {}

\* C10: a tick that computes a position >= bufferDuration leaves the component
\* stopped at the end of the buffer, and it stays so until a user action.
C10_EndOfBuffer ==
    [][/\ (Tick /\ c'.report.pos >= BufferDuration) => AtEnd'
       /\ (AtEnd /\ c.report.pos >= BufferDuration /\ ops' = ops /\ mounted')
             => AtEnd']_vars

\* C11: a look-ahead timer is active only for the live session, which was
\* started with tempo > 0 and has not been stopped, paused, restarted by a
\* seek, ended or torn down since; a session started with tempo <= 0 has its
\* source but neither timer nor click; and whenever isPlaying is false no
\* look-ahead timer is active.
C11_SchedulingWindow ==
    /\ \A t \in c.timers :
          t.id = c.sess.id /\ c.sess.bpm > 0 /\ c.audioSourceRef = t.id
    /\ \A k \in c.clicks : (k.sid = c.sess.id) => c.sess.bpm > 0
    /\ \A k \in c.batch : k.sess.bpm > 0
    /\ c.audioSourceRef # 0 => \E s \in c.sources : s.id = c.audioSourceRef
    /\ ~c.isPlaying => c.timers = {}

\* C12: from every reachable state, a second stopPlayback after a first
\* leaves exactly what the first left: no source, no look-ahead timer, no
\* position loop, isPlaying false when the call updates it, and the recorded
\* offset as it was before the calls.
C12_StopIdempotent ==
    \A updateState \in BOOLEAN :
        LET once  == stopPlayback(c, updateState)
            twice == stopPlayback(once, updateState)
        IN  /\ twice = once
            /\ once.sources = {} /\ once.timers = {} /\ once.frames = {}
            /\ once.audioSourceRef = 0 /\ once.schedulerIntervalRef = 0
            /\ once.animationFrameRef = 0
            /\ updateState => ~once.isPlaying
            /\ once.startOffsetRef = c.startOffsetRef

\* playback had stopped at the end of the buffer and that was rendered when
\* the cleanup called stopPlayback again on the idle component
C12_Witness ==
    /\ ~mounted /\ ~r.isPlaying /\ r.currentTime = BufferDuration
    /\ c.startOffsetRef = BufferDuration /\ ~c.isPlaying
    /\ c.sources = {} /\ c.timers = {} /\ c.frames = {}

\* C13: a position reported by the tick of the live session is the offset of
\* the session plus the hardware time since its start; and, as long as the
\* user has not sought and the end of the buffer is not near, the offset of
\* every session is the total hardware time played before it and the offset
\* recorded while stopped is the total hardware time played so far.
C13_PositionAccounting ==
    /\ (c.report.sid # 0 /\ c.report.sid = c.sess.id) =>
           c.report.pos = c.sess.offset + (c.report.at - c.sess.h)
    /\ (mounted /\ ~c.sought /\ c.played < BufferDuration - WrapEpsilon) =>
           /\ c.sess.offset = c.sess.played
           /\ (c.sess.id # 0 /\ c.audioSourceRef = 0 /\ ~c.isPlaying) =>
                  c.startOffsetRef = c.played

C15_ResetRoundTrip ==
    r.history.restoredFrom # NoGrid =>
        /\ ~r.beatInfo.isUserDefined
        /\ r.beatInfo = beatInfo(r.activeBpm, analysisResult.peaks, NoBeat)
        /\ r.history.restoredFrom.bpm = r.activeBpm =>
               r.beatInfo = r.history.restoredFrom.grid

\* a reset has been rendered for a tempo > 0 and peaks that give a grid
C15_Witness ==
    /\ r.history.restoredFrom # NoGrid
    /\ r.history.restoredFrom.bpm = r.activeBpm
    /\ r.beatInfo.interval > 0 /\ userOverriddenBeat = NoBeat

\* C16: a grid that is not user-defined, computed from a non-empty peak list
\* for a tempo > 0, has its firstBeat on the grid: firstBeat mod interval is
\* the phase.
C16_FirstBeatOnGrid ==
    (/\ ~r.beatInfo.isUserDefined /\ userOverriddenBeat = NoBeat
     /\ Len(analysisResult.peaks) > 0 /\ r.beatInfo.interval > 0) =>
        r.beatInfo.firstBeat % r.beatInfo.interval = r.beatInfo.phase

\* C17: for a tempo > 0 the rendered grid has interval = 60/tempo,
\* 0 <= phase < interval and firstBeat >= 0, whatever the peak list and the
\* override.
C17_WellFormed ==
    activeBpm > 0 =>
        /\ r.beatInfo.interval = BeatInterval(activeBpm)
        /\ 0 <= r.beatInfo.phase /\ r.beatInfo.phase < r.beatInfo.interval
        /\ r.beatInfo.firstBeat >= 0

\* C18: with an empty peak list, a live session started with tempo > 0 has
\* its look-ahead timer, the grid of phase 0 and interval 60/tempo, and every
\* click it schedules is at a song time n * interval.
C18_EmptyPeaksStillClick ==
    (/\ Len(analysisResult.peaks) = 0
     /\ c.sess.id # 0 /\ c.audioSourceRef = c.sess.id /\ c.sess.bpm > 0) =>
        /\ \E t \in c.timers : t.id = c.sess.id /\ t.bpm = c.sess.bpm
        /\ c.sess.phase = 0
        /\ c.sess.interval = BeatInterval(c.sess.bpm)
        /\ \A k \in c.batch :
              (k.sess.offset + (k.time - k.sess.h)) % BeatInterval(c.sess.bpm) = 0

\* C19: the first click computed for a start at offset o on the grid
\* {phase, interval} is at the smallest song time phase + n * interval that
\* is >= o, its hardware time is the start time plus (that song time - o),
\* and its delay after the start is in [0, interval).
C19_FirstClick ==
    g.started =>
        /\ g.songTime >= g.offset
        /\ (g.songTime - g.grid.phase) % g.grid.interval = 0
        /\ g.songTime - g.grid.interval < g.offset
        /\ g.songTime = g.grid.phase
               + Ceil(g.offset - g.grid.phase, g.grid.interval) * g.grid.interval
        /\ g.time = g.h + (g.songTime - g.offset)
        /\ 0 <= g.time - g.h /\ g.time - g.h < g.grid.interval

\* a start at an offset > 0 that lies on the grid: the first click is due at
\* the start itself
C19_Witness ==
    /\ g.started /\ g.offset > 0
    /\ (g.offset - g.grid.phase) % g.grid.interval = 0
    /\ g.time = g.h

\* C20: for peaks [0, 0.5, 1, 1.5, 2] s and the one candidate of tempo 120,
\* the tempo is 120 and the interval 0.5 s (1600 units), and a start at
\* offset 0.2 s (640) has its first click at song time 0.5 s (1600), 0.3 s
\* (960) after the start.
C20_EndToEnd ==
    (/\ analysisResult = [candidates |-> << [tempo |-> 120, count |-> 5] >>,
                          peaks |-> << 0, 1600, 3200, 4800, 6400 >>]
     /\ activeBpm = detectedBpm /\ userOverriddenBeat = NoBeat
     /\ g.started /\ g.offset = 640 /\ g.grid = r.beatInfo) =>
        /\ activeBpm = 120
        /\ r.beatInfo.interval = 1600
        /\ g.songTime = 1600
        /\ g.time - g.h = 960

\* C21: the tempo selected for an empty candidate list is 0, whatever the
\* peaks; the tempo selected for a non-empty candidate list and an empty
\* peak list is the tempo of the first candidate.
C21_FallbackLaws ==
    activeBpm # NoBpm =>
        /\ Len(analysisResult.candidates) = 0 => activeBpm = 0
        /\ (Len(analysisResult.candidates) > 0 /\ Len(analysisResult.peaks) = 0)
               => activeBpm = analysisResult.candidates[1].tempo

\* the tempo has been selected for no peak and two candidates of which the
\* second has the larger count
C21_Witness ==
    /\ activeBpm = 120
    /\ analysisResult.peaks = << >>
    /\ analysisResult.candidates =
           << [tempo |-> 120, count |-> 10], [tempo |-> 90, count |-> 50] >>

\* C22: for the candidates [{120, count 10}, {90, count 50}] and the peaks
\* [0, 0.5, 1, 1.5, 2] s the selected tempo is 120.
C22_AlignmentDominance ==
    (/\ activeBpm # NoBpm
     /\ analysisResult.candidates =
            << [tempo |-> 120, count |-> 10], [tempo |-> 90, count |-> 50] >>
     /\ analysisResult.peaks = << 0, 1600, 3200, 4800, 6400 >>) =>
        activeBpm = 120

\* the list s with the elements at i and j exchanged
Exchanged(s, i, j) == [s EXCEPT ![i] = s[j], ![j] = s[i]]

\* C23: the phase findBestPhase returns for a peak list and an interval > 0
\* is the phase it returns for the list with any two peaks exchanged
\* (exchanges generate every reordering of the list).
C23_OrderIndependent ==
    (out.called /\ out.interval > 0) =>
        \A i \in 1..Len(out.peaks) : \A j \in (i + 1)..Len(out.peaks) :
            findBestPhase(Exchanged(out.peaks, i, j), out.interval) = out.phase

\* C24: for fewer than 2 peaks or an interval <= 0, findBestPhase returns
\* the first peak (0 when there is none) modulo the interval, and 0 when the
\* interval is 0; it never returns NaN.
C24_Degenerate ==
    (out.called /\ (Len(out.peaks) < 2 \/ out.interval <= 0)) =>
        LET first == IF Len(out.peaks) = 0 THEN 0 ELSE out.peaks[1]
        IN  /\ out.phase # NaN
            /\ out.interval = 0 => out.phase = 0
            /\ out.interval # 0 => out.phase = first % Abs(out.interval)

\* the sum of f over the finite set S of its arguments
RECURSIVE SumOver(_, _)
SumOver(f, S) ==
    IF S = {} THEN 0
    ELSE LET x == CHOOSE y \in S : TRUE IN f[x] + SumOver(f, S \ {x})

\* alignment + count + 0.1 * (numberOfCandidates - rankIndex) of the i-th
\* candidate, in units of 1 / toleranceT: alignment sums the credit
\* 1 - error / tolerance of the peaks 2..64 whose error is below tolerance
ClaimedScore(candidates, i, peaks) ==
    LET tempo  == candidates[i].tempo
        window == {k \in 2..Len(peaks) : k <= 64}
        credit == [k \in window |->
                      IF tempo # 0 /\ errorT(peaks[k], tempo) < toleranceT
                      THEN toleranceT - errorT(peaks[k], tempo) ELSE 0]
    IN  SumOver(credit, window) + toleranceT * candidates[i].count
        + (toleranceT \div 10) * (Len(candidates) - (i - 1))

\* C25: for non-empty candidates and peaks the selected tempo is the tempo
\* of a candidate of maximal combined score, the earliest of them; the score
\* counts the peaks 2..64 only, so the first peak and the peaks after the
\* 64th do not change the result.
C25_MaxCombinedScore ==
    (/\ activeBpm # NoBpm
     /\ Len(analysisResult.candidates) > 0 /\ Len(analysisResult.peaks) > 0) =>
        LET cs == analysisResult.candidates
            ps == analysisResult.peaks
        IN  /\ \E i \in 1..Len(cs) :
                  /\ activeBpm = cs[i].tempo
                  /\ \A j \in 1..Len(cs) :
                        ClaimedScore(cs, j, ps) <= ClaimedScore(cs, i, ps)
                  /\ \A j \in 1..(i - 1) :
                        ClaimedScore(cs, j, ps) < ClaimedScore(cs, i, ps)
            /\ \A x \in {0, 1067, 2133} :
                  findBestBpm(cs, [ps EXCEPT ![1] = x]) = activeBpm
            /\ Len(ps) > 64 => findBestBpm(cs, SubSeq(ps, 1, 64)) = activeBpm

\* 120 has been selected before 90, of equal count, for 66 peaks of which
\* the first, the 65th and the 66th are on the beat of 90 only and the
\* others on the beat of both
C25_Witness ==
    /\ activeBpm = 120
    /\ analysisResult.peaks = WindowPeaks
    /\ analysisResult.candidates =
           << [tempo |-> 120, count |-> 10], [tempo |-> 90, count |-> 10] >>

\* the number of peaks lo..hi of the list that fall in bin b of the 32 bins
\* of the interval: floor(((p mod interval) / interval) * 32) = b
RECURSIVE PeaksInBin(_, _, _, _, _)
PeaksInBin(peaks, interval, b, lo, hi) ==
    IF lo > hi THEN 0
    ELSE IF lo = hi
         THEN IF ((peaks[lo] % interval) * 32) \div interval = b THEN 1 ELSE 0
         ELSE LET mid == (lo + hi) \div 2
              IN  PeaksInBin(peaks, interval, b, lo, mid)
                  + PeaksInBin(peaks, interval, b, mid + 1, hi)

\* C26: for at least 2 peaks and an interval > 0 the phase returned is
\* (b + 0.5) / 32 * interval for the lowest bin b of maximal smoothed weight,
\* the weights being those of the histogram of the first 150 peaks smoothed
\* circularly with half of each neighbour; it lies strictly between 0 and
\* the interval.
C26_HistogramPhase ==
    (out.called /\ Len(out.peaks) >= 2 /\ out.interval > 0) =>
        LET n    == IF Len(out.peaks) < 150 THEN Len(out.peaks) ELSE 150
            bins == [b \in 0..31 |-> PeaksInBin(out.peaks, out.interval, b, 1, n)]
            \* twice smoothed[i]
            w    == [i \in 0..31 |->
                        2 * bins[i] + bins[(i + 1) % 32] + bins[(i - 1) % 32]]
        IN  /\ \E b \in 0..31 :
                  /\ \A j \in 0..31 : w[j] <= w[b]
                  /\ \A j \in 0..(b - 1) : w[j] < w[b]
                  /\ 64 * out.phase = (2 * b + 1) * out.interval
            /\ 0 < out.phase /\ out.phase < out.interval

\* the phase of 151 peaks of which the first 150 fill two bins equally: the
\* lower bin has won and the 151st peak has not been counted
C26_Witness ==
    /\ out.called /\ out.peaks = LongPeaks /\ out.interval = 128
    /\ out.phase = 2

\* the distance of peakTime to the nearest line of the grid {phase, interval}
GridDistance(peakTime, phase, interval) ==
    LET remainder == (peakTime - phase) % interval
    IN  IF remainder < interval - remainder THEN remainder
        ELSE interval - remainder

\* C27: the firstBeat of a grid that is not user-defined is the first peak,
\* in list order, whose distance to the nearest grid line is below a quarter
\* of the interval, and the first peak of the list when there is none.
C27_FirstBeatNearGrid ==
    (/\ ~r.beatInfo.isUserDefined /\ userOverriddenBeat = NoBeat
     /\ Len(analysisResult.peaks) > 0 /\ r.beatInfo.interval > 0) =>
        LET peaks == analysisResult.peaks
            near  == {i \in 1..Len(peaks) :
                         4 * GridDistance(peaks[i], r.beatInfo.phase, r.beatInfo.interval)
                             < r.beatInfo.interval}
        IN  r.beatInfo.firstBeat =
                IF near = {} THEN peaks[1]
                ELSE peaks[CHOOSE i \in near : \A j \in near : i <= j]

\* C28: the 'ended' event of a source that has been stopped (by a pause, a
\* seek restart, a new start, the end of the buffer or the teardown) changes
\* nothing of the component: the live source, timer and position loop, the
\* refs, isPlaying and the reported position are as before the event.
C28_StaleEndedIgnored ==
    [][(/\ c.stopped # << >>
        /\ (c'.stopped = << >> \/ Head(c'.stopped) # Head(c.stopped))) =>
          c' = [c EXCEPT !.stopped = c'.stopped]]_vars

\* the first source reported a position at the instant a seek replaced it
\* by the second; its 'ended' event has been dispatched since, and the
\* second source is still playing
C28_Witness ==
    /\ c.stopped = << >>
    /\ c.report.sid = 1 /\ c.report.pos < BufferDuration
    /\ c.sess.id = 2 /\ c.sess.kind = "seek" /\ c.sess.h = c.report.at
    /\ c.audioSourceRef = 2 /\ c.isPlaying
    /\ \E s \in c.sources : s.id = 2

\* C29: the step that reports the end of the buffer, be it the tick that
\* computes a position >= bufferDuration or the 'ended' event of the live
\* source, leaves the recorded offset and the reported position at
\* bufferDuration, so that the next play starts at offset 0.
C29_EndRecorded ==
    [][(\/ (c'.report # c.report /\ c'.report.pos >= BufferDuration)
        \/ SourceEnded) =>
          /\ c'.startOffsetRef = BufferDuration
          /\ c'.currentTime = BufferDuration
          /\ handlePlayPause(c', [r EXCEPT !.isPlaying = FALSE]).currentTime = 0]_vars

\* the step is a seek to x received while not playing: it starts nothing,
\* schedules nothing and leaves isPlaying false; the component records x as
\* the offset when x is more than 10 ms from the last known position and
\* is unchanged otherwise
IdleSeek(x) ==
    (SeekTo(x) /\ ~c.isPlaying) =>
        LET shown == [c EXCEPT !.currentTime = x, !.writer = "seek", !.sought = TRUE]
        IN  /\ c'.sources = c.sources /\ c'.timers = c.timers
            /\ c'.frames = c.frames /\ c'.clicks = c.clicks
            /\ c'.sessions = c.sessions /\ c'.awaiting = c.awaiting
            /\ ~c'.isPlaying
            /\ c' = IF Abs(x - c.internalTimeRef) > SeekEpsilon
                    THEN [shown EXCEPT !.startOffsetRef = x, !.internalTimeRef = x,
                                       !.recorded = x]
                    ELSE shown

\* the step has started playback at offset o, or has asked for it while the
\* context resumes: the source starts at o and the first click is due at
\* the first beat of the grid at or after o
StartsAt(o) ==
    IF ctx = "suspended"
    THEN /\ Len(c'.awaiting) = Len(c.awaiting) + 1
         /\ c'.awaiting[Len(c'.awaiting)].offset = o
    ELSE /\ c'.sessions = c.sessions + 1
         /\ c'.sources = {[id |-> c'.sessions, startedAt |-> now, offset |-> o]}
         /\ c'.sess.offset = o /\ c'.sess.h = now /\ c'.isPlaying
         /\ (c'.sess.bpm > 0 /\ c'.sess.interval > 0) =>
                LET delay == c'.nextNoteTimeRef - now
                IN  /\ 0 <= delay /\ delay < c'.sess.interval
                    /\ (o + delay - c'.sess.phase) % c'.sess.interval = 0

\* C30: a seek received while not playing only records the offset (and
\* changes nothing when it is at most 10 ms from the last known position),
\* and the next play starts the source and the click grid at exactly the
\* recorded offset.
C30_IdleSeek ==
    [][/\ \A x \in SeekTargets : IdleSeek(x)
       /\ (PlayPause /\ c.recorded # NoSeek) => StartsAt(c.recorded)]_vars
====
